---- MODULE Spec2Model ----
(***************************************************************************)
(* Static CUDA device properties by SM architectural version               *)
(* (cub/arch_device_props.cuh).                                            *)
(*                                                                         *)
(* ArchDeviceProps<SM_ARCH> is a family of structs.  Four of them (100,    *)
(* 120, 200, 300) declare an enum of device properties and a static        *)
(* Callback(target, sm_version); every other instantiation derives from    *)
(* one of those and declares nothing.  The model follows                   *)
(*   - member lookup in ArchDeviceProps<T> / PtxDeviceProps, one base      *)
(*     class at a time, and                                                *)
(*   - the Callback chain 100 -> 120 -> 200 -> 300, one call at a time.    *)
(***************************************************************************)
EXTENDS Integers, Sequences, FiniteSets

\* Range of the integers tried as sm_version / template argument.
MaxNegative == 2
MaxSmVersion == 352

SmVersions == (0 - MaxNegative)..MaxSmVersion

VARIABLES
    phase,       \* "idle", "lookup", "callback", "invoked", "bound"
    want,        \* what is being looked up: "none", "props", "callback"
    ptx,         \* TRUE when the lookup went through PtxDeviceProps
    query,       \* template argument T of the ArchDeviceProps<T> named
    look,        \* the struct member lookup is currently examining
    depth,       \* base classes walked so far by the lookup
    props,       \* the enum found by a "props" lookup
    sm_arg,      \* sm_version as handed in by the caller
    entry,       \* the struct whose Callback the caller's call entered
    cur,         \* the struct whose Callback is executing
    sm_version,  \* the parameter sm_version of the executing Callback
    hops,        \* Callback -> Callback calls made so far
    calls        \* calls made on target, in order

vars == <<phase, want, ptx, query, look, depth, props,
          sm_arg, entry, cur, sm_version, hops, calls>>

----------------------------------------------------------------------------
\* The enums.

\* a << n on non-negative int operands
Shl(a, n) == a * (2 ^ n)

\* bool enumerator initialisers convert to int
EnumBool(b) == IF b THEN 1 ELSE 0

SM30 ==
    [ LOG_WARP_THREADS    |-> 5,
      WARP_THREADS        |-> Shl(1, 5),
      LOG_SMEM_BANKS      |-> 5,
      SMEM_BANKS          |-> Shl(1, 5),
      SMEM_BANK_BYTES     |-> 4,
      SMEM_BYTES          |-> 48 * 1024,
      SMEM_ALLOC_UNIT     |-> 256,
      REGS_BY_BLOCK       |-> EnumBool(FALSE),
      REG_ALLOC_UNIT      |-> 256,
      WARP_ALLOC_UNIT     |-> 4,
      MAX_SM_THREADS      |-> 2048,
      MAX_SM_THREADBLOCKS |-> 16,
      MAX_BLOCK_THREADS   |-> 1024,
      MAX_SM_REGISTERS    |-> 64 * 1024 ]

\* SM20 with the shared memory size given in bytes where KB were meant
SM20_SmemNotScaled ==
    [ LOG_WARP_THREADS    |-> 5,
      WARP_THREADS        |-> Shl(1, 5),
      LOG_SMEM_BANKS      |-> 5,
      SMEM_BANKS          |-> Shl(1, 5),
      SMEM_BANK_BYTES     |-> 4,
      SMEM_BYTES          |-> 48,
      SMEM_ALLOC_UNIT     |-> 128,
      REGS_BY_BLOCK       |-> EnumBool(FALSE),
      REG_ALLOC_UNIT      |-> 64,
      WARP_ALLOC_UNIT     |-> 2,
      MAX_SM_THREADS      |-> 1536,
      MAX_SM_THREADBLOCKS |-> 8,
      MAX_BLOCK_THREADS   |-> 1024,
      MAX_SM_REGISTERS    |-> 32 * 1024 ]

SM20 ==
    [ LOG_WARP_THREADS    |-> 5,
      WARP_THREADS        |-> Shl(1, 5),
      LOG_SMEM_BANKS      |-> 5,
      SMEM_BANKS          |-> Shl(1, 5),
      SMEM_BANK_BYTES     |-> 4,
      SMEM_BYTES          |-> 48 * 1024,
      SMEM_ALLOC_UNIT     |-> 128,
      REGS_BY_BLOCK       |-> EnumBool(FALSE),
      REG_ALLOC_UNIT      |-> 64,
      WARP_ALLOC_UNIT     |-> 2,
      MAX_SM_THREADS      |-> 1536,
      MAX_SM_THREADBLOCKS |-> 8,
      MAX_BLOCK_THREADS   |-> 1024,
      MAX_SM_REGISTERS    |-> 32 * 1024 ]

SM12 ==
    [ LOG_WARP_THREADS    |-> 5,
      WARP_THREADS        |-> Shl(1, 5),
      LOG_SMEM_BANKS      |-> 4,
      SMEM_BANKS          |-> Shl(1, 4),
      SMEM_BANK_BYTES     |-> 4,
      SMEM_BYTES          |-> 16 * 1024,
      SMEM_ALLOC_UNIT     |-> 512,
      REGS_BY_BLOCK       |-> EnumBool(TRUE),
      REG_ALLOC_UNIT      |-> 512,
      WARP_ALLOC_UNIT     |-> 2,
      MAX_SM_THREADS      |-> 1024,
      MAX_SM_THREADBLOCKS |-> 8,
      MAX_BLOCK_THREADS   |-> 512,
      MAX_SM_REGISTERS    |-> 16 * 1024 ]

SM10 ==
    [ LOG_WARP_THREADS    |-> 5,
      WARP_THREADS        |-> Shl(1, 5),
      LOG_SMEM_BANKS      |-> 4,
      SMEM_BANKS          |-> Shl(1, 4),
      SMEM_BANK_BYTES     |-> 4,
      SMEM_BYTES          |-> 16 * 1024,
      SMEM_ALLOC_UNIT     |-> 512,
      REGS_BY_BLOCK       |-> EnumBool(TRUE),
      REG_ALLOC_UNIT      |-> 256,
      WARP_ALLOC_UNIT     |-> 2,
      MAX_SM_THREADS      |-> 768,
      MAX_SM_THREADBLOCKS |-> 8,
      MAX_BLOCK_THREADS   |-> 512,
      MAX_SM_REGISTERS    |-> 8 * 1024 ]

\* props before any lookup has bound it
NoProps == [f \in DOMAIN SM10 |-> 0]

----------------------------------------------------------------------------
\* The struct family.

\* the explicit specialisations that declare the enum and Callback
DeclaresMembers(A) == A \in {300, 200, 120, 100}

\* the enum declared by a struct that declares one
EnumOf(A) ==
    CASE A = 300 -> SM30
      [] A = 200 -> SM20
      [] A = 120 -> SM12
      [] A = 100 -> SM10

\* the primary template derives from SM30
Derives_UnknownFromNewest(A) ==
    CASE A = 350 -> 300
      [] A = 210 -> 200
      [] A = 130 -> 120
      [] A = 110 -> 100
      [] OTHER   -> 300

\* SM35 derives from SM20
Derives_Sm35FromSm20(A) ==
    CASE A = 350 -> 200
      [] A = 210 -> 200
      [] A = 130 -> 120
      [] A = 110 -> 100
      [] OTHER   -> 100

\* the base class of a struct that declares nothing itself
Derives(A) ==
    CASE A = 350 -> 300
      [] A = 210 -> 200
      [] A = 130 -> 120
      [] A = 110 -> 100
      [] OTHER   -> 100

\* #ifndef __CUDA_ARCH__ ... 0 ... #else ... __CUDA_ARCH__
CUB_PTX_ARCH(cuda_arch_defined, cuda_arch) ==
    IF ~cuda_arch_defined THEN 0 ELSE cuda_arch

----------------------------------------------------------------------------
Init ==
    /\ phase = "idle"
    /\ want = "none"
    /\ ptx = FALSE
    /\ query = 0
    /\ look = 0
    /\ depth = 0
    /\ props = NoProps
    /\ sm_arg = 0
    /\ entry = 0
    /\ cur = 0
    /\ sm_version = 0
    /\ hops = 0
    /\ calls = <<>>

\* Client code names a member of ArchDeviceProps<T>
ArchDevicePropsLookup(T) ==
    /\ phase = "idle"
    /\ phase' = "lookup"
    /\ want' = "props"
    /\ ptx' = FALSE
    /\ query' = T
    /\ look' = T
    /\ depth' = 0
    /\ UNCHANGED <<props, sm_arg, entry, cur, sm_version, hops, calls>>

\* Client code names a member of PtxDeviceProps, which declares nothing and
\* derives from ArchDeviceProps<CUB_PTX_ARCH>
PtxDevicePropsLookup(cuda_arch_defined, cuda_arch) ==
    /\ phase = "idle"
    /\ phase' = "lookup"
    /\ want' = "props"
    /\ ptx' = TRUE
    /\ query' = CUB_PTX_ARCH(cuda_arch_defined, cuda_arch)
    /\ look' = CUB_PTX_ARCH(cuda_arch_defined, cuda_arch)
    /\ depth' = 1
    /\ UNCHANGED <<props, sm_arg, entry, cur, sm_version, hops, calls>>

\* Client code calls ArchDeviceProps<E>::Callback(target, v)
CallbackLookup(E, v) ==
    /\ phase = "idle"
    /\ phase' = "lookup"
    /\ want' = "callback"
    /\ ptx' = FALSE
    /\ query' = E
    /\ look' = E
    /\ depth' = 0
    /\ sm_arg' = v
    /\ UNCHANGED <<props, entry, cur, sm_version, hops, calls>>

\* The struct examined declares nothing: the lookup goes on in its base class
LookupInBase ==
    /\ phase = "lookup"
    /\ ~DeclaresMembers(look)
    /\ look' = Derives(look)
    /\ depth' = depth + 1
    /\ UNCHANGED <<phase, want, ptx, query, props,
                   sm_arg, entry, cur, sm_version, hops, calls>>

\* The struct examined declares the enum
FoundProps ==
    /\ phase = "lookup"
    /\ want = "props"
    /\ DeclaresMembers(look)
    /\ props' = EnumOf(look)
    /\ phase' = "bound"
    /\ UNCHANGED <<want, ptx, query, look, depth,
                   sm_arg, entry, cur, sm_version, hops, calls>>

\* The struct examined declares Callback: the call enters it
FoundCallback ==
    /\ phase = "lookup"
    /\ want = "callback"
    /\ DeclaresMembers(look)
    /\ phase' = "callback"
    /\ entry' = look
    /\ cur' = look
    /\ sm_version' = sm_arg
    /\ UNCHANGED <<want, ptx, query, look, depth, props, sm_arg, hops, calls>>

----------------------------------------------------------------------------
\* The Callback chain.

\* target.template Callback<ArchDeviceProps>(): inside ArchDeviceProps<P> the
\* name ArchDeviceProps is P itself; the call passes no arguments
Invoke(P) ==
    /\ calls' = Append(calls, [props |-> P, args |-> <<>>])
    /\ phase' = "invoked"
    /\ UNCHANGED <<want, ptx, query, look, depth, props,
                   sm_arg, entry, cur, sm_version, hops>>

\* ArchDeviceProps<N>::Callback(target, v)
CallNext(N, v) ==
    /\ cur' = N
    /\ sm_version' = v
    /\ hops' = hops + 1
    /\ UNCHANGED <<phase, want, ptx, query, look, depth, props,
                   sm_arg, entry, calls>>

Callback300 ==
    /\ phase = "callback"
    /\ cur = 300
    /\ Invoke(300)

\* sm_version >= 200 where > was meant
Callback200_Ge ==
    /\ phase = "callback"
    /\ cur = 200
    /\ IF sm_version >= 200
         THEN CallNext(300, sm_version)
         ELSE Invoke(200)

Callback200 ==
    /\ phase = "callback"
    /\ cur = 200
    /\ IF sm_version > 200
         THEN CallNext(300, sm_version)
         ELSE Invoke(200)

\* the else is missing: target is called after the delegation as well
Callback120_NoElse ==
    /\ phase = "callback"
    /\ cur = 120
    /\ IF sm_version > 120
         THEN /\ cur' = 200
              /\ sm_version' = sm_version
              /\ hops' = hops + 1
              /\ calls' = Append(calls, [props |-> 120, args |-> <<>>])
              /\ UNCHANGED <<phase, want, ptx, query, look, depth, props,
                             sm_arg, entry>>
         ELSE Invoke(120)

Callback120 ==
    /\ phase = "callback"
    /\ cur = 120
    /\ IF sm_version > 120
         THEN CallNext(200, sm_version)
         ELSE Invoke(120)

\* the comparison is inverted
Callback100_Lt ==
    /\ phase = "callback"
    /\ cur = 100
    /\ IF sm_version < 100
         THEN CallNext(120, sm_version)
         ELSE Invoke(100)

\* the struct's own id is passed on in place of sm_version
Callback100_PassesOwnId ==
    /\ phase = "callback"
    /\ cur = 100
    /\ IF sm_version > 100
         THEN CallNext(120, 100)
         ELSE Invoke(100)

\* the chain skips SM12
Callback100_Skips120 ==
    /\ phase = "callback"
    /\ cur = 100
    /\ IF sm_version > 100
         THEN CallNext(200, sm_version)
         ELSE Invoke(100)

Callback100 ==
    /\ phase = "callback"
    /\ cur = 100
    /\ IF sm_version > 100
         THEN CallNext(120, sm_version)
         ELSE Invoke(100)

\* The call (or the use of the enum) is over; nothing of it is kept
Return ==
    /\ phase \in {"invoked", "bound"}
    /\ phase' = "idle"
    /\ want' = "none"
    /\ ptx' = FALSE
    /\ query' = 0
    /\ look' = 0
    /\ depth' = 0
    /\ props' = NoProps
    /\ sm_arg' = 0
    /\ entry' = 0
    /\ cur' = 0
    /\ sm_version' = 0
    /\ hops' = 0
    /\ calls' = <<>>

----------------------------------------------------------------------------
\* The template arguments client code names: the explicit specialisations,
\* the host pass's 0 and the rest of the range.
Begin ==
    \/ \E T \in SmVersions : ArchDevicePropsLookup(T)
    \/ \E d \in BOOLEAN, a \in SmVersions : PtxDevicePropsLookup(d, a)
    \/ \E E \in {0, 100, 110, 120, 130, 200, 210, 300, 350}, v \in SmVersions :
          CallbackLookup(E, v)

\* Everything that runs once client code has begun: synchronous, no waiting
Step ==
    \/ LookupInBase
    \/ FoundProps
    \/ FoundCallback
    \/ Callback100
    \/ Callback120
    \/ Callback200
    \/ Callback300
    \/ Return

Next == Begin \/ Step

Spec == Init /\ [][Next]_vars

\* Name lookup and the Callback chain are straight-line code: once begun they
\* run to completion.
FairSpec == Spec /\ WF_vars(Step)

----------------------------------------------------------------------------
\* What the properties below speak of.

\* the generation ids that have a profile of their own
Bases == {100, 120, 200, 300}

\* the alias edges X -> Y
AliasEdges == {<<110, 100>>, <<130, 120>>, <<210, 200>>, <<350, 300>>}

\* the generation ids that are declared at all
Declared == Bases \cup {e[1] : e \in AliasEdges}

\* the fields that stand for a capacity
CapacityFields ==
    {"SMEM_BYTES", "SMEM_BANKS", "WARP_THREADS", "MAX_SM_THREADS",
     "MAX_SM_THREADBLOCKS", "MAX_BLOCK_THREADS", "MAX_SM_REGISTERS"}

\* greatest base id not exceeding v
FloorBase(v) ==
    CHOOSE b \in Bases : b <= v /\ \A c \in Bases : c <= v => c <= b

\* smallest base id that is at least E and at least v, the newest base when
\* there is none
CeilBase(E, v) ==
    IF \E b \in Bases : b >= E /\ b >= v
      THEN CHOOSE b \in Bases :
             /\ b >= E /\ b >= v
             /\ \A c \in Bases : (c >= E /\ c >= v) => b <= c
      ELSE 300

\* the next strictly greater base id
NextBase(b) ==
    CHOOSE c \in Bases : c > b /\ \A d \in Bases : d > b => c <= d

\* the profile the operation was last called with
Selected == calls[Len(calls)].props

\* a dispatch entered at the baseline's Callback has called the operation
Dispatched == phase = "invoked" /\ entry = 100 /\ Len(calls) >= 1

----------------------------------------------------------------------------
\* C1: a dispatch entered at the baseline with a v strictly between two
\* consecutive base ids resolves to the greatest base id not exceeding v.
C1_FloorMatch ==
    (Dispatched /\ sm_arg \notin Bases /\ 100 < sm_arg /\ sm_arg < 300)
        => Selected = FloorBase(sm_arg)

\* C2: a dispatch entered at the baseline with v the id of an alias X -> Y
\* resolves to Y.
C2_AliasCollapses ==
    \A e \in AliasEdges :
        (Dispatched /\ sm_arg = e[1]) => Selected = e[2]

\* C3: a dispatch entered at the baseline with v the id of a base profile
\* resolves to exactly that profile.
C3_ExactMatch ==
    (Dispatched /\ sm_arg \in Bases) => Selected = sm_arg

C3_Witness ==
    Dispatched /\ sm_arg = 200 /\ Selected = 200 /\ hops = 2

\* C4: a v below the smallest base id resolves to the baseline and a v above
\* the largest base id resolves to the newest base; the operation is called
\* either way.
C4_OutOfRange ==
    /\ (Dispatched /\ sm_arg < 100) => Selected = 100
    /\ (Dispatched /\ sm_arg > 300) => Selected = 300
    /\ (phase = "invoked" /\ (sm_arg < 100 \/ sm_arg > 300)) => Len(calls) = 1

C4_Witness ==
    Dispatched /\ sm_arg > 300 /\ sm_arg # 350 /\ Selected = 300 /\ hops = 3

\* C5: every call of Callback ends having called the operation exactly once,
\* however many Callbacks of the chain it went through.
C5_ExactlyOnce ==
    /\ [](Len(calls) <= 1)
    /\ [](phase = "callback" => Len(calls) = 0)
    /\ [](phase = "invoked" => Len(calls) = 1)
    /\ ((want = "callback" /\ phase # "invoked") ~> (phase = "invoked"))

C5_Witness ==
    phase = "invoked" /\ hops = 3 /\ Len(calls) = 1 /\ query = 110

C7_UnknownIsBaseline ==
    (phase = "bound" /\ ptx /\ query \notin Declared)
        => \A f \in DOMAIN SM10 : props[f] = SM10[f]

C7_Witness ==
    phase = "bound" /\ ptx /\ query = 0 /\ depth = 2 /\ props = SM10

\* C8: for every alias edge X -> Y the fields found in X are the fields of
\* Y, Y is a base and is reached in one step; no lookup walks more than one
\* base class of the family and every lookup ends.
C8_AliasEqualsBase ==
    /\ [](\A e \in AliasEdges :
            (phase = "bound" /\ ~ptx /\ query = e[1]) =>
                /\ look = e[2]
                /\ e[2] \in Bases
                /\ DeclaresMembers(look)
                /\ depth = 1
                /\ \A f \in DOMAIN props : props[f] = EnumOf(e[2])[f])
    /\ [](phase = "lookup" => depth <= (IF ptx THEN 2 ELSE 1))
    /\ ((phase = "lookup") ~> (phase \in {"bound", "callback"}))

C8_Witness ==
    /\ phase = "bound" /\ ~ptx /\ query = 350 /\ look = 300 /\ depth = 1
    /\ props = SM30

\* C9: the fields of a base profile that stand for a capacity are at least
\* those of every older base profile.
C9_CapacityMonotone ==
    (phase = "bound" /\ query \in Bases) =>
        \A A \in Bases : A < query =>
            \A f \in CapacityFields : props[f] >= EnumOf(A)[f]

C9_Witness ==
    /\ phase = "bound" /\ query = 300
    /\ props.MAX_SM_REGISTERS > SM20.MAX_SM_REGISTERS
    /\ props.SMEM_BYTES = SM20.SMEM_BYTES

\* C10: the chain selects a base profile: the smallest base id that is at
\* least the entry profile's and at least sm_version, or 300 when sm_version
\* is above 300; a Callback calls only the Callback of the next greater base.
C10_CeilingFromEntry ==
    /\ [](phase = "invoked" =>
            /\ Len(calls) = 1
            /\ Selected \in Bases
            /\ Selected >= entry
            /\ Selected = CeilBase(entry, sm_arg))
    /\ [][(phase = "callback" /\ phase' = "callback")
            => (cur \in Bases /\ cur' = NextBase(cur))]_vars

C10_Witness ==
    /\ phase = "invoked" /\ entry = 120 /\ query = 130 /\ sm_arg = 50
    /\ Selected = 120 /\ hops = 0

====
